---- MODULE Spec2Model ----
(***************************************************************************)
(* Model of server.js: an Automerge relay.  One process-wide Document      *)
(* (doc), one snapshot file (manifest.json), a WebSocket server whose      *)
(* connection callbacks answer hello, merge incoming full states, persist, *)
(* acknowledge and broadcast.  All callbacks are synchronous JavaScript,   *)
(* so every callback is one atomic action.                                 *)
(***************************************************************************)
EXTENDS Integers, Sequences, FiniteSets, TLC

\* ---------------------------------------------------------------- bounds
MaxChange == 2      \* changes are 1..MaxChange
MaxClients == 2     \* connections accepted in one run
MaxFaults == 2      \* calls that fail (send throws, write fails) in one callback

\* ------------------------------------------------------------- constants
nextClientIdStart == 1

Changes == 1..MaxChange
Garbage == 0                \* a token the deserializer cannot parse
NoDoc == {-1}               \* `let doc;` before loadInitial has run
NoClient == 0

Min(S) == CHOOSE x \in S : \A y \in S : x <= y
Max(S) == CHOOSE x \in S : \A y \in S : y <= x
Range(s) == {s[i] : i \in 1..Len(s)}

\* ------------------------------------------------- the Automerge library
\* A document is the set of changes it has seen; the visible value of the
\* question text is the one written by the latest change.

\* qText(d): d.pages[0].questionRows[0].elements[0].questionText ?? "(missing)"
qText(d) == IF d = {} THEN 0 ELSE Max(d)

\* Automerge.save(doc): the changes of the document, serialized in order.
RECURSIVE save(_)
save(d) == IF d = {} THEN <<>> ELSE <<Min(d)>> \o save(d \ {Min(d)})

\* Automerge.load(payload): throws (ok = FALSE) unless every token parses.
load(p) ==
    IF \A i \in 1..Len(p) : p[i] \in Changes
    THEN [ok |-> TRUE, doc |-> Range(p)]
    ELSE [ok |-> FALSE, doc |-> {}]

\* Automerge.merge(doc, incomingDoc): every change of either side.
merge(d, inc) == d \cup inc

\* Automerge.from(seed): a document whose visible value is the seed's.
from(seed) == IF seed = 0 THEN {} ELSE {seed}

\* The fixed empty shape { pages: [], tiles: [], ... } has no question text.
EmptyShape == 0

\* ------------------------------------------------------ the snapshot file
\* JSON.stringify(doc, null, 2): the plain-JSON projection of the document.
JsonStringify(d) == [kind |-> "json", questionText |-> qText(d)]

Absent == [kind |-> "absent", questionText |-> 0]
Corrupt == [kind |-> "corrupt", questionText |-> 0]
Torn == [kind |-> "torn", questionText |-> 0]

\* fs.writeFileSync either replaces the file, or throws having left it
\* untouched, or throws after truncating it.
WriteOutcomes == {"ok", "unchanged", "torn"}

\* persistJson(): the file after the attempt; the error is swallowed.
persistJsonSkip(file, d, w) == file
persistJsonPartial(file, d, w) ==
    CASE w = "ok" -> IF file.kind = "json" THEN Torn ELSE JsonStringify(d)
      [] w = "unchanged" -> file
      [] OTHER -> Torn
persistJsonEmptyShape(file, d, w) ==
    CASE w = "ok" -> JsonStringify(from(EmptyShape))
      [] w = "unchanged" -> file
      [] OTHER -> Torn
persistJson(file, d, w) ==
    CASE w = "ok" -> JsonStringify(d)
      [] w = "unchanged" -> file
      [] OTHER -> Torn

\* the result of the most recent writeFileSync
WriteResult(w) == IF w = "ok" THEN "ok" ELSE "fail"

\* ----------------------------------------------------------------- frames
MsgTypes == {"hello", "full", "ping", "debug_echo", "other"}
\* What a client puts in payload: a saved document, or one whose first
\* token has become unreadable.
Payloads ==
    {save(d) : d \in SUBSET Changes}
    \cup {[save(d) EXCEPT ![1] = Garbage] : d \in (SUBSET Changes) \ {{}}}

\* A frame a client sends: text that is or is not JSON, with a type and,
\* for full, a payload.
Frames ==
    {[json |-> FALSE, type |-> "other", payload |-> <<>>]}
    \cup {[json |-> TRUE, type |-> t, payload |-> <<>>] : t \in MsgTypes \ {"full"}}
    \cup {[json |-> TRUE, type |-> "full", payload |-> p] : p \in Payloads}

NoFrame == [json |-> FALSE, type |-> "none", payload |-> <<>>]

\* text.length of the received frame
TextLength(frame) == Len(frame.payload) + 1

VARIABLES
    phase,          \* "boot" | "running" | "crashed" (uncaught exception)
    doc,            \* let doc
    snapshot,       \* the content of manifest.json
    lastWrite,      \* "none" | "ok" | "fail": the latest writeFileSync
    nextClientId,   \* let nextClientId
    clients,        \* wss.clients
    readyState,     \* ws.readyState of every accepted connection
    timers,         \* connections whose setInterval is still scheduled
    last,           \* the callback that has just run, Idle between callbacks
    sent,           \* the ws.send calls of that callback, in order
    sendFailed,     \* some ws.send has thrown since startup
    lastFull        \* while no send has thrown: per open socket, the payload
                    \* of the latest full message delivered to it

vars == <<phase, doc, snapshot, lastWrite, nextClientId, clients, readyState,
          timers, last, sent, sendFailed, lastFull>>

\* The record of a callback: what ran, for which socket, on which frame,
\* the document and the latest write result it found, and its own write.
Event(op, c, frame, branch, before, persist) ==
    [op |-> op, conn |-> c, frame |-> frame, branch |-> branch,
     before |-> before, wbefore |-> lastWrite, persist |-> persist]

\* The event loop between two callbacks.
Idle ==
    [op |-> "idle", conn |-> NoClient, frame |-> NoFrame, branch |-> "none",
     before |-> NoDoc, wbefore |-> "none", persist |-> "none"]

\* ws.send(msg): delivered on an open socket unless it throws; on a socket
\* that is no longer open it throws or is dropped, depending on the library.
Send(c, type, payload, throws) ==
    [to |-> c, type |-> type, payload |-> payload,
     result |-> IF throws THEN "throw"
                ELSE IF readyState[c] = "open" THEN "ok" ELSE "drop"]

\* no full message has been delivered yet
NoPayload == <<Garbage, Garbage>>

\* ws.send has thrown in log
Thrown(log) == \E i \in 1..Len(log) : log[i].result = "throw"

\* The latest full message delivered to each socket of open once the sends
\* of log have been made; lf holds the ones delivered before.
FullsTo(log, c) ==
    {i \in 1..Len(log) : log[i].to = c /\ log[i].type = "full" /\ log[i].result = "ok"}
Deliver(lf, log, open) ==
    [c \in open |->
        IF FullsTo(log, c) # {} THEN log[Max(FullsTo(log, c))].payload
        ELSE IF c \in DOMAIN lf THEN lf[c]
        ELSE NoPayload]

\* The two history variables after a callback that made the sends of log
\* and left the sockets of open open.
Track(log, open) ==
    /\ sendFailed' = (sendFailed \/ Thrown(log))
    /\ lastFull' = IF sendFailed \/ Thrown(log) THEN <<>>
                   ELSE Deliver(lastFull, log, open)

\* the number of the calls of one callback that fail
Fault(b) == IF b THEN 1 ELSE 0

\* the sockets of wss.clients whose readyState is OPEN
OpenClients == {c \in clients : readyState[c] = "open"}

\* ------------------------------------------------------------------- Init
InitialFiles == {Absent, Corrupt} \cup {[kind |-> "json", questionText |-> q] : q \in 0..MaxChange}

Init ==
    /\ phase = "boot"
    /\ doc = NoDoc
    /\ snapshot \in InitialFiles
    /\ lastWrite = "none"
    /\ nextClientId = nextClientIdStart
    /\ clients = {}
    /\ readyState = <<>>
    /\ timers = {}
    /\ last = Idle
    /\ sent = <<>>
    /\ sendFailed = FALSE
    /\ lastFull = <<>>

\* ------------------------------------------------------------ loadInitial
\* The document loadInitial builds from the file it finds.
LoadedDoc(file) == IF file.kind = "json" THEN from(file.questionText) ELSE from(EmptyShape)

\* loadInitial persists only when the file is absent or does not parse.
LoadPersistsOnlyAbsent(file) == file.kind = "absent"
LoadPersists(file) == file.kind # "json"

loadInitial(w) ==
    /\ phase = "boot"
    /\ last = Idle
    /\ doc' = LoadedDoc(snapshot)
    /\ IF LoadPersists(snapshot)
       THEN /\ snapshot' = persistJson(snapshot, LoadedDoc(snapshot), w)
            /\ lastWrite' = WriteResult(w)
            /\ last' = Event("load", NoClient, NoFrame, "none", NoDoc, w)
       ELSE /\ UNCHANGED <<snapshot, lastWrite>>
            /\ last' = Event("load", NoClient, NoFrame, "none", NoDoc, "none")
    /\ phase' = "running"
    /\ sent' = <<>>
    /\ UNCHANGED <<nextClientId, clients, readyState, timers, sendFailed, lastFull>>

\* ------------------------------------------------- wss.on("connection")
\* 0) the initial FULL to the socket that has just opened.
InitialFullEmpty(id, d, throws) ==
    [to |-> id, type |-> "full", payload |-> <<>>,
     result |-> IF throws THEN "throw" ELSE "ok"]
InitialFull(id, d, throws) ==
    [to |-> id, type |-> "full", payload |-> save(d),
     result |-> IF throws THEN "throw" ELSE "ok"]

\* nextClientId++: the value nextClientId has after the handler took its id
PostIncrementStuck(n) == n
PostIncrement(n) == n + 1

OnConnection(throws) ==
    /\ phase = "running"
    /\ last = Idle
    /\ nextClientId <= MaxClients
    /\ LET id == nextClientId IN
        /\ nextClientId' = PostIncrement(nextClientId)
        /\ clients' = clients \cup {id}
        /\ readyState' = readyState @@ (id :> "open")
        /\ timers' = timers \cup {id}
        /\ sent' = <<InitialFull(id, doc, throws)>>
        /\ Track(sent', OpenClients \cup {id})
        /\ last' = Event("connect", id, NoFrame, "none", doc, "none")
    /\ UNCHANGED <<phase, doc, snapshot, lastWrite>>

\* ------------------------------------------------------ socket closing
\* The peer starts closing: readyState leaves OPEN while the socket is
\* still in wss.clients and its interval is still scheduled.
BeginClose(c) ==
    /\ phase = "running"
    /\ last = Idle
    /\ c \in clients
    /\ readyState[c] = "open"
    /\ readyState' = [readyState EXCEPT ![c] = "closing"]
    /\ last' = Event("closing", c, NoFrame, "none", doc, "none")
    /\ sent' = <<>>
    /\ Track(<<>>, OpenClients \ {c})
    /\ UNCHANGED <<phase, doc, snapshot, lastWrite, nextClientId, clients, timers>>

\* ws.on("close"): clearInterval(pingId); the library drops the socket
\* from wss.clients in the same event.
OnClose(c) ==
    /\ phase = "running"
    /\ last = Idle
    /\ c \in clients
    /\ readyState' = [readyState EXCEPT ![c] = "closed"]
    /\ clients' = clients \ {c}
    /\ timers' = timers \ {c}
    /\ last' = Event("close", c, NoFrame, "none", doc, "none")
    /\ sent' = <<>>
    /\ Track(<<>>, OpenClients \ {c})
    /\ UNCHANGED <<phase, doc, snapshot, lastWrite, nextClientId>>

\* ------------------------------------------------- setInterval callback
\* The tick sends only when the socket is open.
PingSendsNoCheck(c) == TRUE
PingSends(c) == readyState[c] = "open"

\* The send of the tick is not inside a try: when it throws, the exception
\* is uncaught and the process ends.
PingTick(c, throws) ==
    /\ phase = "running"
    /\ last = Idle
    /\ c \in timers
    /\ IF PingSends(c)
       THEN /\ sent' = <<Send(c, "ping", <<>>, throws)>>
            /\ phase' = IF throws THEN "crashed" ELSE phase
       ELSE /\ sent' = <<>>
            /\ UNCHANGED phase
    /\ last' = Event("tick", c, NoFrame, "none", doc, "none")
    /\ Track(sent', OpenClients)
    /\ UNCHANGED <<doc, snapshot, lastWrite, nextClientId, clients, readyState, timers>>

\* --------------------------------------------------- ws.on("message")
\* The branch the handler takes for a frame.
DispatchNoParse(frame) ==
    IF frame.type = "hello" \/ ~frame.json THEN "hello"
    ELSE IF frame.type # "full" THEN "ignored"
    ELSE IF ~load(frame.payload).ok THEN "loadfail"
    ELSE "merged"
DispatchBadFullMerges(frame) ==
    IF ~frame.json THEN "badjson"
    ELSE IF frame.type = "hello" THEN "hello"
    ELSE IF frame.type # "full" THEN "ignored"
    ELSE "merged"
DispatchPingIsHello(frame) ==
    IF ~frame.json THEN "badjson"
    ELSE IF frame.type \in {"hello", "ping"} THEN "hello"
    ELSE IF frame.type # "full" THEN "ignored"
    ELSE IF ~load(frame.payload).ok THEN "loadfail"
    ELSE "merged"
DispatchOtherIsFull(frame) ==
    IF ~frame.json THEN "badjson"
    ELSE IF frame.type = "hello" THEN "hello"
    ELSE IF ~load(frame.payload).ok THEN "loadfail"
    ELSE "merged"
Dispatch(frame) ==
    IF ~frame.json THEN "badjson"
    ELSE IF frame.type = "hello" THEN "hello"
    ELSE IF frame.type # "full" THEN "ignored"
    ELSE IF ~load(frame.payload).ok THEN "loadfail"
    ELSE "merged"

\* The debug echo that opens every handling, inside its own try.
DebugEcho(c, frame, throws) == Send(c, "debug_echo", <<TextLength(frame)>>, throws)

\* The reply to hello: the document serialized now.
HelloReplyEmpty(c, d, throws) == Send(c, "full", <<>>, throws)
HelloReply(c, d, throws) == Send(c, "full", save(d), throws)

\* Step 4: the persisted acknowledgment to the sender.
PersistedAck(c, d, throws) == Send(c, "persisted", <<qText(d)>>, throws)

\* Step 5: wss.clients.forEach in insertion order, inside one try: the
\* first send that throws ends the loop.
\* failAt is the socket whose send throws, NoClient when none does.
BroadcastFirstOnly(ids, payload, failAt) ==
    LET open == {c \in ids : readyState[c] = "open"} IN
    IF open = {} THEN <<>>
    ELSE <<Send(Min(open), "full", payload, Min(open) = failAt)>>
RECURSIVE Broadcast(_, _, _)
Broadcast(ids, payload, failAt) ==
    IF ids = {} THEN <<>>
    ELSE LET c == Min(ids) IN
         IF readyState[c] # "open" THEN Broadcast(ids \ {c}, payload, failAt)
         ELSE IF c = failAt THEN <<Send(c, "full", payload, TRUE)>>
         ELSE <<Send(c, "full", payload, FALSE)>> \o Broadcast(ids \ {c}, payload, failAt)

\* doc = Automerge.merge(doc, Automerge.load(payload))
MergedDocReplace(d, payload) == load(payload).doc
MergedDocKeepsOwn(d, payload) == IF d = {} THEN load(payload).doc ELSE d
MergedDoc(d, payload) == merge(d, load(payload).doc)

\* Steps 4 and 5 in the order of the handler.
BroadcastThenAck(c, d, ackThrows, failAt) ==
    Broadcast(clients, save(d), failAt) \o <<PersistedAck(c, d, ackThrows)>>
AckFailureEndsHandling(c, d, ackThrows, failAt) ==
    IF ackThrows THEN <<PersistedAck(c, d, ackThrows)>>
    ELSE <<PersistedAck(c, d, ackThrows)>> \o Broadcast(clients, save(d), failAt)
AckThenBroadcastStale(c, d, ackThrows, failAt) ==
    <<PersistedAck(c, d, ackThrows)>> \o Broadcast(clients, save(doc), failAt)
AckThenBroadcast(c, d, ackThrows, failAt) ==
    <<PersistedAck(c, d, ackThrows)>> \o Broadcast(clients, save(d), failAt)

\* Frames that end at an early return: only the debug echo has happened.
Discarded(c, frame, branch) ==
    /\ phase = "running"
    /\ last = Idle
    /\ c \in clients
    /\ Dispatch(frame) = branch
    /\ \E echoThrows \in BOOLEAN :
          sent' = <<DebugEcho(c, frame, echoThrows)>>
    /\ last' = Event("message", c, frame, branch, doc, "none")
    /\ Track(sent', OpenClients)
    /\ UNCHANGED <<phase, doc, snapshot, lastWrite, nextClientId, clients,
                   readyState, timers>>

RecvInvalidJson(c, frame) == Discarded(c, frame, "badjson")

RecvIgnored(c, frame) == Discarded(c, frame, "ignored")

RecvBadFull(c, frame) == Discarded(c, frame, "loadfail")

RecvHello(c, frame) ==
    /\ phase = "running"
    /\ last = Idle
    /\ c \in clients
    /\ Dispatch(frame) = "hello"
    /\ \E echoThrows, replyThrows \in BOOLEAN :
          /\ Fault(echoThrows) + Fault(replyThrows) <= MaxFaults
          /\ sent' = <<DebugEcho(c, frame, echoThrows), HelloReply(c, doc, replyThrows)>>
    /\ last' = Event("message", c, frame, "hello", doc, "none")
    /\ Track(sent', OpenClients)
    /\ UNCHANGED <<phase, doc, snapshot, lastWrite, nextClientId, clients,
                   readyState, timers>>

\* load, merge, persist, acknowledge, broadcast.
RecvFull(c, frame) ==
    /\ phase = "running"
    /\ last = Idle
    /\ c \in clients
    /\ Dispatch(frame) = "merged"
    /\ \E echoThrows, ackThrows \in BOOLEAN, w \in WriteOutcomes,
          failAt \in OpenClients \cup {NoClient} :
          /\ Fault(echoThrows) + Fault(w # "ok") + Fault(ackThrows)
                + Fault(failAt # NoClient) <= MaxFaults
          /\ LET merged == MergedDoc(doc, frame.payload)
             IN /\ doc' = merged
                /\ snapshot' = persistJson(snapshot, merged, w)
                /\ lastWrite' = WriteResult(w)
                /\ sent' = <<DebugEcho(c, frame, echoThrows)>>
                           \o AckThenBroadcast(c, merged, ackThrows, failAt)
                /\ last' = Event("message", c, frame, "merged", doc, w)
    /\ Track(sent', OpenClients)
    /\ UNCHANGED <<phase, nextClientId, clients, readyState, timers>>

\* The callback returns to the event loop; the next event can be taken.
Return ==
    /\ phase # "crashed"
    /\ last # Idle
    /\ last' = Idle
    /\ sent' = <<>>
    /\ UNCHANGED <<phase, doc, snapshot, lastWrite, nextClientId, clients,
                   readyState, timers, sendFailed, lastFull>>

Next ==
    \/ \E w \in WriteOutcomes : loadInitial(w)
    \/ \E t \in BOOLEAN : OnConnection(t)
    \/ \E c \in clients : BeginClose(c)
    \/ \E c \in clients : OnClose(c)
    \/ \E c \in timers, t \in BOOLEAN : PingTick(c, t)
    \/ \E c \in clients, f \in Frames : RecvInvalidJson(c, f)
    \/ \E c \in clients, f \in Frames : RecvIgnored(c, f)
    \/ \E c \in clients, f \in Frames : RecvBadFull(c, f)
    \/ \E c \in clients, f \in Frames : RecvHello(c, f)
    \/ \E c \in clients, f \in Frames : RecvFull(c, f)
    \/ Return

Spec == Init /\ [][Next]_vars

\* ======================================================================
\* Properties
\* ======================================================================
IsMessage(e) == e.op = "message"
\* a full message whose payload deserializes
FullOk(e) == IsMessage(e) /\ e.frame.json /\ e.frame.type = "full" /\ load(e.frame.payload).ok
\* a full message whose payload does not deserialize
FullBad(e) == IsMessage(e) /\ e.frame.json /\ e.frame.type = "full" /\ ~load(e.frame.payload).ok
HelloMsg(e) == IsMessage(e) /\ e.frame.json /\ e.frame.type = "hello"
InvalidJson(e) == IsMessage(e) /\ ~e.frame.json
OtherType(e) == IsMessage(e) /\ e.frame.json /\ e.frame.type \notin {"hello", "full"}

\* positions in a send log
Sends(log, c, type) == {i \in 1..Len(log) : log[i].to = c /\ log[i].type = type}
Delivered(log, c, type) == {i \in Sends(log, c, type) : log[i].result = "ok"}
OfType(log, type) == {i \in 1..Len(log) : log[i].type = type}
NoSendFails(log) == \A i \in 1..Len(log) : log[i].result = "ok"

C2_DocIsFoldOfReceived ==
    [][phase = "running" =>
          doc' = IF FullOk(last') THEN merge(doc, load(last'.frame.payload).doc)
                 ELSE doc]_vars

C2_Witness ==
    /\ FullOk(last)
    /\ last.before # {}
    /\ doc # last.before
    /\ doc # load(last.frame.payload).doc

\* ---------------------------------------------------------------- C3
\* C3: a full message whose payload fails to deserialize changes neither
\* the document nor the snapshot, persists nothing and sends neither a
\* persisted acknowledgment nor a full message; the reply a hello of any
\* other connection gets afterwards carries the document as it was before
\* the bad message.
C3_BadFullIsDiscarded ==
    [][FullBad(last') =>
            /\ doc' = doc
            /\ snapshot' = snapshot
            /\ lastWrite' = lastWrite
            /\ last'.persist = "none"
            /\ OfType(sent', "persisted") = {}
            /\ OfType(sent', "full") = {}
            /\ \A c \in clients \ {last'.conn} :
                  HelloReply(c, doc', FALSE).payload = save(doc)
      ]_vars

C3_Witness ==
    /\ FullBad(last)
    /\ Cardinality(OpenClients) = 2
    /\ doc # {}
    /\ doc = last.before

\* ---------------------------------------------------------------- C4
\* C4: handling hello sends the sender one full message whose payload is
\* the serialization of the document, which deserializes to the document,
\* and leaves the document as it was.
C4_HelloRepliesCurrentDoc ==
    [][HelloMsg(last') =>
          /\ doc' = doc
          /\ Cardinality(OfType(sent', "full")) = 1
          /\ \A i \in OfType(sent', "full") :
                /\ sent'[i].to = last'.conn
                /\ sent'[i].payload = save(doc')
                /\ load(sent'[i].payload).ok
                /\ load(sent'[i].payload).doc = doc'
      ]_vars

C4_Witness ==
    /\ HelloMsg(last)
    /\ Cardinality(doc) = 2
    /\ Delivered(sent, last.conn, "full") # {}

\* ---------------------------------------------------------------- C5
\* C5 as stated: a frame that is not valid JSON makes the server send
\* nothing at all and leaves the document unchanged.
C5_Original == InvalidJson(last) => (sent = <<>> /\ doc = last.before)

\* C5 amended: a frame that is not valid JSON makes the server send one
\* debug_echo to the sender and nothing else, and changes neither the
\* document nor the snapshot.
C5_InvalidJsonOnlyEchoed ==
    [][InvalidJson(last') =>
          /\ doc' = doc
          /\ snapshot' = snapshot
          /\ Len(sent') = 1
          /\ sent'[1].type = "debug_echo"
          /\ sent'[1].to = last'.conn
      ]_vars

C5_Witness ==
    /\ InvalidJson(last)
    /\ Cardinality(OpenClients) = 2
    /\ sent[1].result = "ok"

\* ---------------------------------------------------------------- C6
\* C6 as stated: a message whose type is neither hello nor full makes the
\* server send nothing and change nothing.
C6_Original == OtherType(last) => (sent = <<>> /\ doc = last.before)

\* C6 amended: a message whose type is neither hello nor full makes the
\* server send one debug_echo to the sender and nothing else, and changes
\* no state of the server.
C6_OtherTypeOnlyEchoed ==
    [][OtherType(last') =>
          /\ UNCHANGED <<phase, doc, snapshot, lastWrite, nextClientId, clients,
                         readyState, timers>>
          /\ Len(sent') = 1
          /\ sent'[1].type = "debug_echo"
          /\ sent'[1].to = last'.conn
      ]_vars

C6_Witness ==
    /\ OtherType(last)
    /\ last.frame.type = "debug_echo"
    /\ Cardinality(OpenClients) = 2
    /\ sent[1].result = "ok"

\* ---------------------------------------------------------------- C7
\* C7: in a broadcast every open connection is sent the full message, its
\* own send failing or not, and the failure does not end the process.
C7_BroadcastReachesEveryOpen ==
    FullOk(last) =>
        /\ \A c \in OpenClients : Sends(sent, c, "full") # {}
        /\ phase # "crashed"

\* ---------------------------------------------------------------- C8
\* C8: no failure ends the process.
C8_NeverFatal == phase # "crashed"

\* ---------------------------------------------------------------- C9
\* C9: when the persist of a full handling fails, the document is the
\* merged one, the acknowledgment is sent to the sender and the broadcast
\* is started with the merged document; and a persist that succeeds
\* leaves the snapshot equal to the JSON form of the document of that time.
C9_PersistFailureIsNotFatal ==
    [][/\ (FullOk(last') /\ last'.persist # "ok") =>
            /\ doc' = merge(doc, load(last'.frame.payload).doc)
            /\ Sends(sent', last'.conn, "persisted") # {}
            /\ OpenClients # {} =>
                  \E i \in OfType(sent', "full") : sent'[i].payload = save(doc')
       /\ last'.persist = "ok" => snapshot' = JsonStringify(doc')
      ]_vars

C9_Witness ==
    /\ FullOk(last)
    /\ last.wbefore = "fail"
    /\ last.persist = "ok"
    /\ qText(last.before) # qText(doc)

\* --------------------------------------------------------------- C10
\* C10: once loaded, as long as the latest write succeeded the snapshot is
\* the whole JSON form of the current document; it is torn only after a
\* write that failed.
C10_SnapshotIsCurrent ==
    (phase # "boot" /\ lastWrite # "fail") =>
        /\ snapshot = JsonStringify(doc)
        /\ snapshot.kind = "json"

C10_Witness ==
    /\ FullOk(last)
    /\ last.persist = "ok"
    /\ qText(last.before) # qText(doc)
    /\ snapshot.questionText = qText(doc)

\* --------------------------------------------------------------- C11
\* C11 as stated: when startup has finished the server runs, the document
\* is the empty shape if the snapshot was absent or unparseable, and the
\* snapshot is a whole JSON file equal to the form of the document.
C11_Original ==
    last.op = "load" =>
        /\ phase = "running"
        /\ last.persist # "none" => doc = from(EmptyShape)
        /\ snapshot.kind = "json"
        /\ snapshot = JsonStringify(doc)

\* C11 amended: startup always ends with the server running; an absent or
\* unparseable snapshot gives the empty-shape document and one write of it,
\* a parseable one gives the document built from it and no write; the
\* snapshot then is the JSON form of the document unless that write failed.
C11_LoadSeedsAndPersists ==
    [][last'.op = "load" =>
          /\ phase' = "running"
          /\ snapshot.kind # "json" =>
                /\ doc' = from(EmptyShape)
                /\ last'.persist \in WriteOutcomes
                /\ lastWrite' = WriteResult(last'.persist)
          /\ snapshot.kind = "json" =>
                /\ doc' = from(snapshot.questionText)
                /\ last'.persist = "none"
                /\ snapshot' = snapshot
          /\ last'.persist \in {"none", "ok"} =>
                /\ snapshot'.kind = "json"
                /\ snapshot' = JsonStringify(doc')
      ]_vars

C11_Witness ==
    /\ last.op = "load"
    /\ last.persist = "ok"
    /\ doc = from(EmptyShape)
    /\ snapshot = JsonStringify(doc)

\* --------------------------------------------------------------- C12
\* C12: the connection handler sends the new connection, which has been
\* sent nothing before, one full message carrying the serialization of the
\* document of that moment; delivered or not, the connection is then open,
\* registered and timed, and a hello from it is answered with a full
\* message carrying the document current at the hello.
C12_ConnectSendsCurrentDoc ==
    [][/\ last'.op = "connect" =>
            /\ last'.conn \notin DOMAIN readyState
            /\ doc' = doc
            /\ Len(sent') = 1
            /\ sent'[1].to = last'.conn
            /\ sent'[1].type = "full"
            /\ sent'[1].payload = save(doc)
            /\ load(sent'[1].payload).doc = doc
            /\ last'.conn \in clients'
            /\ last'.conn \in timers'
            /\ readyState'[last'.conn] = "open"
            /\ (HelloReply(last.conn, doc, FALSE)
                  = [to |-> last.conn, type |-> "full",
                     payload |-> save(doc), result |-> "ok"])'
       /\ HelloMsg(last') =>
            /\ last'.conn \in clients
            /\ \E i \in Sends(sent', last'.conn, "full") :
                  sent'[i].payload = save(doc')
      ]_vars

C12_Witness ==
    /\ last.op = "connect"
    /\ last.conn = 2
    /\ sent[1].result = "throw"
    /\ doc # {}
    /\ last.conn \in OpenClients

\* --------------------------------------------------------------- C13
\* C13: a closed connection is in neither the registry nor the set of
\* scheduled timers, and no callback sends anything to a closed connection;
\* a tick on an open connection makes one send, a ping to that connection,
\* and a tick on a connection that is not open sends nothing.
C13_ClosedIsNeverSentTo ==
    /\ \A c \in DOMAIN readyState :
          readyState[c] = "closed" => (c \notin clients /\ c \notin timers)
    /\ \A i \in 1..Len(sent) : readyState[sent[i].to] # "closed"
    /\ last.op = "close" => readyState[last.conn] = "closed"
    /\ last.op = "tick" =>
          IF readyState[last.conn] = "open"
          THEN /\ Len(sent) = 1
               /\ sent[1].type = "ping"
               /\ sent[1].to = last.conn
          ELSE sent = <<>>

C13_Witness ==
    /\ last.op = "tick"
    /\ readyState[1] = "closed"
    /\ readyState[2] = "open"
    /\ Delivered(sent, 2, "ping") # {}

\* --------------------------------------------------------------- C14
\* C14: a callback starts only when no other is running and returns before
\* the next starts; the handling of a deserialized full message has, when
\* it ends, merged, attempted the persist, sent the acknowledgment and run
\* the broadcast, and every broadcast message carries the document that
\* this merge produced.
C14_MergesAreSerialized ==
    [][/\ last # Idle => last' = Idle
       /\ FullOk(last') =>
            /\ last = Idle
            /\ last'.before = doc
            /\ doc' = merge(doc, load(last'.frame.payload).doc)
            /\ last'.persist \in WriteOutcomes
            /\ lastWrite' = WriteResult(last'.persist)
            /\ Cardinality(Sends(sent', last'.conn, "persisted")) = 1
            /\ \A i \in OfType(sent', "full") :
                  sent'[i].payload = save(merge(doc, load(last'.frame.payload).doc))
            /\ OpenClients # {} => OfType(sent', "full") # {}
            /\ NoSendFails(sent') =>
                  \A c \in OpenClients : Delivered(sent', c, "full") # {}
      ]_vars

C14_Witness ==
    /\ FullOk(last)
    /\ last.conn = 2
    /\ 1 \in OpenClients
    /\ last.before # {}
    /\ doc # last.before
    /\ Delivered(sent, 1, "full") # {}
    /\ sent[Min(Delivered(sent, 1, "full"))].payload = save(doc)

\* the payloads that Automerge.load accepts
Deserializable == {p \in Payloads : load(p).ok}

C16_IdsIncreaseAndAreNeverReused ==
    [][/\ DOMAIN readyState = nextClientIdStart..(nextClientId - 1)
       /\ last'.op = "connect" =>
            /\ last'.conn = nextClientId
            /\ last'.conn \notin DOMAIN readyState
            /\ \A c \in DOMAIN readyState : c < last'.conn
            /\ nextClientId' > nextClientId
            /\ DOMAIN readyState' = DOMAIN readyState \cup {last'.conn}
            /\ \A c \in DOMAIN readyState : readyState'[c] = readyState[c]
       /\ last'.op # "connect" =>
            /\ nextClientId' = nextClientId
            /\ DOMAIN readyState' = DOMAIN readyState
      ]_vars

C16_Witness ==
    /\ last.op = "connect"
    /\ last.conn = 2
    /\ readyState[1] = "closed"
    /\ readyState[2] = "open"
    /\ nextClientId = 3

\* --------------------------------------------------------------- C17
\* C17: a persisted acknowledgment is sent only while handling a
\* deserialized full message, only to the connection that sent it and only
\* once, failed or not; when that send fails the document is the merged
\* one, the snapshot is what the persist attempt left, and the broadcast
\* of the merged document runs: it reaches every open connection unless a
\* broadcast send fails too.
C17_AckOnlyToSenderNotRetried ==
    [][/\ \A i \in OfType(sent', "persisted") :
             /\ FullOk(last')
             /\ sent'[i].to = last'.conn
       /\ Cardinality(OfType(sent', "persisted")) <= 1
       /\ (FullOk(last') /\ \E i \in OfType(sent', "persisted") : sent'[i].result = "throw") =>
             /\ doc' = merge(doc, load(last'.frame.payload).doc)
             /\ last'.persist = "ok" => snapshot' = JsonStringify(doc')
             /\ last'.persist = "unchanged" => snapshot' = snapshot
             /\ \A i \in OfType(sent', "full") : sent'[i].payload = save(doc')
             /\ OpenClients # {} => OfType(sent', "full") # {}
             /\ (\A i \in OfType(sent', "full") : sent'[i].result = "ok") =>
                   \A c \in OpenClients : Delivered(sent', c, "full") # {}
      ]_vars

C17_Witness ==
    /\ FullOk(last)
    /\ \E i \in Sends(sent, last.conn, "persisted") : sent[i].result = "throw"
    /\ Cardinality(OpenClients) = 2
    /\ \A c \in OpenClients : Delivered(sent, c, "full") # {}
    /\ doc # last.before
    /\ snapshot = JsonStringify(doc)

\* --------------------------------------------------------------- C18
\* C18 as stated: whenever a persisted acknowledgment has been sent, the
\* write of that handling succeeded and the snapshot is the JSON form of
\* the post-merge document.
C18_Original ==
    OfType(sent, "persisted") # {} =>
        /\ last.persist = "ok"
        /\ snapshot = JsonStringify(doc)

\* C18 amended: a persisted acknowledgment is sent after the persist of the
\* post-merge document has been attempted, whatever its outcome, and
\* summarizes the in-memory post-merge document; the snapshot at that
\* moment is the JSON form of the post-merge document when the write
\* succeeded, and the untouched or torn file when it failed.
C18_AckFollowsPersistAttempt ==
    [][/\ \A i \in OfType(sent', "persisted") :
             /\ FullOk(last')
             /\ last'.persist \in WriteOutcomes
             /\ sent'[i].payload = <<qText(merge(doc, load(last'.frame.payload).doc))>>
             /\ last'.persist = "ok" =>
                   snapshot' = JsonStringify(merge(doc, load(last'.frame.payload).doc))
             /\ last'.persist = "unchanged" => snapshot' = snapshot
             /\ last'.persist = "torn" => snapshot' = Torn
       /\ FullOk(last') => OfType(sent', "persisted") # {}
      ]_vars

C18_Witness ==
    /\ FullOk(last)
    /\ last.persist = "torn"
    /\ Delivered(sent, last.conn, "persisted") # {}
    /\ snapshot # JsonStringify(doc)
    /\ doc # last.before

\* --------------------------------------------------------------- C19
\* C19: as long as no send has thrown since startup, after every callback
\* the latest full message delivered to each open connection carries the
\* serialization of the current document.
C19_OpenReplicasAreCurrent ==
    (phase = "running" /\ ~sendFailed) =>
        /\ DOMAIN lastFull = OpenClients
        /\ \A c \in OpenClients :
              /\ lastFull[c] = save(doc)
              /\ load(lastFull[c]).doc = doc

C19_Witness ==
    /\ phase = "running"
    /\ ~sendFailed
    /\ last = Idle
    /\ Cardinality(OpenClients) = 2
    /\ Cardinality(doc) = MaxChange
    /\ \A c \in OpenClients : c \in DOMAIN lastFull /\ lastFull[c] = save(doc)

\* --------------------------------------------------------------- C20
\* C20: once the server runs, every step that is not the handling of a
\* deserialized full message (connect, closing, close, tick, hello, ignored
\* type, invalid JSON, undeserializable full, return to the event loop)
\* leaves the document, the snapshot and the latest write result as they
\* were and sends only to the connection the event belongs to.
C20_OnlyFullChangesDocAndSnapshot ==
    [][(phase = "running" /\ ~FullOk(last')) =>
          /\ doc' = doc
          /\ snapshot' = snapshot
          /\ lastWrite' = lastWrite
          /\ last'.persist = "none"
          /\ \A i \in 1..Len(sent') : sent'[i].to = last'.conn
      ]_vars

C20_Witness ==
    /\ HelloMsg(last)
    /\ last.conn = 1
    /\ 2 \in OpenClients
    /\ doc # {}
    /\ doc = last.before
    /\ snapshot = JsonStringify(doc)
    /\ Len(sent) = 2
    /\ NoSendFails(sent)
====
